---- MODULE Spec2Model ----
(***************************************************************************)
(* Chain weight (src/src/fil_cns/weight.rs), gas fee-market estimation     *)
(* (src/src/rpc/gas_api.rs) and the WebSocket RPC handler                  *)
(* (src/src/rpc/rpc_ws_handler.rs) of the forest node, as state machines.  *)
(*                                                                         *)
(* Results of fallible functions are records [ok, val, err]:               *)
(* Ok(v) is [ok |-> TRUE, val |-> v, err |-> ""] and Err(e) is             *)
(* [ok |-> FALSE, val |-> 0, err |-> e].                                   *)
(*                                                                         *)
(* TLC integers are 32-bit, so the gas model is scaled: gas amounts are    *)
(* counted in units of BLOCK_GAS_TARGET / 4, the u64 of the budget counter *)
(* is a modulus far above every sum of gas limits in a history (as 2^64    *)
(* is), and the noise fixed point has PrecisionBits bits where the code    *)
(* has 32.  Token amounts (BigInt) are integers, unscaled.                 *)
(***************************************************************************)
EXTENDS Integers, Sequences, FiniteSets, TLC

VARIABLES
    db,      \* weight(): what the blockstore holds at ts.parent_state()
    ts,      \* weight(): the tipset handed to weight()
    wRes,    \* outcome of the latest weight(db, ts) call ("none" before one)
    wPrev,   \* outcome of the call before the latest one on the same input
    wCalls,  \* number of weight() calls made on the current input
    chain,   \* chain store: the tipsets from genesis to the heaviest tipset
    build,   \* how the binary was built (integer overflow checks on or off)
    mpool,   \* message pool: the tipset it is at and its pending messages
    last,    \* the latest estimator call: its inputs, locals and outcome
    conn,      \* WebSocket connection: its endpoint and its receive loop
    ws_sender, \* the shared sender: who holds its lock, whether writes work
    frames     \* the frames received: each with its task and its replies

weightVars == <<db, ts, wRes, wPrev, wCalls>>
gasVars == <<chain, build, mpool, last>>
wsVars == <<conn, ws_sender, frames>>
vars == <<db, ts, wRes, wPrev, wCalls, chain, build, mpool, last,
          conn, ws_sender, frames>>

Ok(v) == [ok |-> TRUE, val |-> v, err |-> ""]
Err(e) == [ok |-> FALSE, val |-> 0, err |-> e]
NoCall == [ok |-> FALSE, val |-> 0, err |-> "no call yet"]

(***************************************************************************)
(* Bounds of the weight model.                                             *)
(***************************************************************************)
MaxHeaders == 2      \* block headers per tipset: 1..MaxHeaders
MaxWinCount == 2     \* win_count (i64) ranges over -1..MaxWinCount
MaxPower == 8        \* total quality-adjusted power ranges over -1..MaxPower
MaxWeightCalls == 2  \* weight() calls followed on one input

(***************************************************************************)
(* weight.rs constants.                                                    *)
(***************************************************************************)
W_RATIO_NUM == 1
W_RATIO_DEN == 2
BLOCKS_PER_EPOCH == 5

ERR_TREE == "state tree: root not found"
ERR_GET_ACTOR == "state tree: get_actor failed"
ERR_NO_POWER_ACTOR == "Failed to load power actor for calculating weight"
ERR_LOAD_STATE == "power state: load failed"
ERR_NO_POWER == "All power in the net is gone. You network might be disconnected, or the net is dead!"
ERR_NO_ELECTION_PROOF == "Block contained no election proof when calculating weight"

(***************************************************************************)
(* Inputs of weight().  A header is its election_proof: None, or           *)
(* Some(ElectionProof {win_count}).  The blockstore is what the three      *)
(* loads of weight() find at the parent state root; what lies behind a     *)
(* failed load is unobservable and kept at a fixed value.                  *)
(***************************************************************************)
NoProof == [some |-> FALSE, win_count |-> 0]
Proof(w) == [some |-> TRUE, win_count |-> w]
ElectionProofs == {NoProof} \cup {Proof(w) : w \in -1..MaxWinCount}
HeaderSeqs == UNION {[1..n -> ElectionProofs] : n \in 1..MaxHeaders}
ParentWeights == {0, 1000}
Tipsets == [block_headers : HeaderSeqs, weight : ParentWeights]

PowerActorDBs ==
    {[tree |-> "err", actor |-> "none", load |-> "ok", tpow |-> 0],
     [tree |-> "ok", actor |-> "err", load |-> "ok", tpow |-> 0],
     [tree |-> "ok", actor |-> "none", load |-> "ok", tpow |-> 0],
     [tree |-> "ok", actor |-> "some", load |-> "err", tpow |-> 0]}
    \cup {[tree |-> "ok", actor |-> "some", load |-> "ok", tpow |-> p] :
            p \in -1..MaxPower}

(***************************************************************************)
(* BigInt::bits(): the number of bits of the magnitude.                    *)
(***************************************************************************)
RECURSIVE bits(_)
bits(n) == IF n = 0 THEN 0 ELSE 1 + bits(n \div 2)

(***************************************************************************)
(* The loop of weight.rs:48-55: sums win_count header by header, and       *)
(* stops with the error at the first header without an election proof.     *)
(***************************************************************************)
RECURSIVE total_j_from(_, _, _)
total_j_from(headers, i, acc) ==
    IF i > Len(headers) THEN Ok(acc)
    ELSE IF ~headers[i].some THEN Err(ERR_NO_ELECTION_PROOF)
    ELSE total_j_from(headers, i + 1, acc + headers[i].win_count)

(***************************************************************************)
(* Variant of total_j that skips the headers without an election proof.    *)
(***************************************************************************)
RECURSIVE skip_missing_from(_, _, _)
skip_missing_from(headers, i, acc) ==
    IF i > Len(headers) THEN Ok(acc)
    ELSE skip_missing_from(headers, i + 1,
            acc + (IF headers[i].some THEN headers[i].win_count ELSE 0))

total_j_skip_missing(headers) == skip_missing_from(headers, 1, 0)

total_j(headers) == total_j_from(headers, 1, 0)

(***************************************************************************)
(* Faulty variants of weight_sum.                                          *)
(* no_den: divides by BLOCKS_PER_EPOCH only; no_parent: starts from zero   *)
(* instead of ts.weight(); no_e_weight: never adds e_weight.               *)
(***************************************************************************)
weight_sum_no_den(parent_weight, log2_p, j) ==
    parent_weight + log2_p * 256
        + (((log2_p * W_RATIO_NUM) * 256 * j) \div BLOCKS_PER_EPOCH)

weight_sum_no_parent(parent_weight, log2_p, j) ==
    log2_p * 256
        + (((log2_p * W_RATIO_NUM) * 256 * j)
              \div (BLOCKS_PER_EPOCH * W_RATIO_DEN))

weight_sum_no_e_weight(parent_weight, log2_p, j) ==
    parent_weight + log2_p * 256

(***************************************************************************)
(* weight.rs:57-64, with log2_p and total_j known.  x << 8 is x * 256;     *)
(* div_floor is \div (the divisor is positive).                            *)
(***************************************************************************)
weight_sum(parent_weight, log2_p, j) ==
    LET out1 == parent_weight + log2_p * 256
        e_weight == ((log2_p * W_RATIO_NUM) * 256 * j)
                        \div (BLOCKS_PER_EPOCH * W_RATIO_DEN)
    IN  out1 + e_weight

(***************************************************************************)
(* Variants of weight with a slip in them.  proofs_first: reads the win    *)
(* counts before it checks the power; default_actor: a missing power actor *)
(* is read as the default (zero power) state.                              *)
(***************************************************************************)
weight_proofs_first(d, t) ==
    IF d.tree # "ok" THEN Err(ERR_TREE)
    ELSE IF d.actor = "err" THEN Err(ERR_GET_ACTOR)
    ELSE IF d.actor = "none" THEN Err(ERR_NO_POWER_ACTOR)
    ELSE IF d.load # "ok" THEN Err(ERR_LOAD_STATE)
    ELSE LET tj == total_j(t.block_headers)
         IN  IF ~tj.ok THEN tj
             ELSE IF ~(d.tpow > 0) THEN Err(ERR_NO_POWER)
             ELSE Ok(weight_sum(t.weight, bits(d.tpow) - 1, tj.val))

weight_default_actor(d, t) ==
    IF d.tree # "ok" THEN Err(ERR_TREE)
    ELSE IF d.actor = "err" THEN Err(ERR_GET_ACTOR)
    ELSE IF d.actor = "none" THEN Err(ERR_NO_POWER)
    ELSE IF d.load # "ok" THEN Err(ERR_LOAD_STATE)
    ELSE IF ~(d.tpow > 0) THEN Err(ERR_NO_POWER)
    ELSE LET tj == total_j(t.block_headers)
         IN  IF ~tj.ok THEN tj
             ELSE Ok(weight_sum(t.weight, bits(d.tpow) - 1, tj.val))

(***************************************************************************)
(* weight(db, ts), weight.rs:23-65.                                        *)
(***************************************************************************)
weight(d, t) ==
    IF d.tree # "ok" THEN Err(ERR_TREE)
    ELSE IF d.actor = "err" THEN Err(ERR_GET_ACTOR)
    ELSE IF d.actor = "none" THEN Err(ERR_NO_POWER_ACTOR)
    ELSE IF d.load # "ok" THEN Err(ERR_LOAD_STATE)
    ELSE IF ~(d.tpow > 0) THEN Err(ERR_NO_POWER)
    ELSE LET log2_p == bits(d.tpow) - 1
             tj == total_j(t.block_headers)
         IN  IF ~tj.ok THEN tj
             ELSE Ok(weight_sum(t.weight, log2_p, tj.val))

(***************************************************************************)
(* Gas estimation, src/src/rpc/gas_api.rs.                                 *)
(***************************************************************************)
MaxChain == 4        \* tipsets in the chain store, genesis included
MaxQueueBlks == 3    \* finite max_queue_blks range over -MaxQueueBlks..MaxQueueBlks
MaxNBlocks == 3      \* nblocksincl ranges over 0..MaxNBlocks
PrecisionBits == 12  \* bits of the noise fixed point (precision, 32 in the code)

MIN_GAS_PREMIUM == 100000
BASE_FEE_MAX_CHANGE_DENOM == 8
BLOCK_GAS_TARGET == 4     \* in gas units (5_000_000_000 gas)
U64_MODULUS == 1024       \* in gas units (2^64 gas): the width of `at`
\* (1 + 1/8)^n * 256 is no finite f64 from this n on
F64_POW_OVERFLOW == 5980

ERR_FEE_CAP_CONVERT == "failed to convert fee_in_future f64 to bigint"
ERR_PREMIUM_CONVERT == "failed to converrt gas premium f64 to bigint"
ERR_LOAD_TIPSET == "chain store: required tipset not found"
PANIC_SUB_OVERFLOW == "panic: attempt to subtract with overflow"

RECURSIVE Pow(_, _)
Pow(b, n) == IF n = 0 THEN 1 ELSE b * Pow(b, n - 1)

(***************************************************************************)
(* An f64 that is about to be converted by BigInt::from_f64: its class     *)
(* and, when finite, its truncation toward zero.                           *)
(***************************************************************************)
Finite(k) == [class |-> "finite", trunc |-> k]
Infinite == [class |-> "inf", trunc |-> 0]
NaN == [class |-> "nan", trunc |-> 0]

\* Faulty variant of BigInt_from_f64: a value that is not finite becomes 0.
BigInt_from_f64_lossy(x, e) ==
    IF x.class = "finite" THEN Ok(x.trunc) ELSE Ok(0)

\* BigInt::from_f64: None for NaN and the infinities, else the truncation.
BigInt_from_f64(x, e) == IF x.class = "finite" THEN Ok(x.trunc) ELSE Err(e)

(***************************************************************************)
(* Chain store.  A tipset is its epoch, its block headers (each with its   *)
(* parent_base_fee) and the messages messages_for_tipset finds in it       *)
(* (each with gas_premium and gas_limit).  chain[i] has epoch i - 1 and    *)
(* parents chain[i - 1]; the heaviest tipset is the last one.              *)
(***************************************************************************)
Header(f) == [parent_base_fee |-> f]
ChainTipset(hs, ms) == [block_headers |-> hs, msgs |-> ms]
Genesis == ChainTipset(<<Header(100)>>, <<>>)
GasMsg(p, l) == [gas_premium |-> p, gas_limit |-> l]
epoch(c, i) == i - 1
heaviest_tipset(c) == Len(c)

\* the tipsets the fee-cap model appends: one or two headers, the usual base
\* fee (100 atto is MINIMUM_BASE_FEE), a higher one, zero, and a tipset whose
\* second header differs from its first
FeeTipsets ==
    {ChainTipset(<<Header(0)>>, <<>>),
     ChainTipset(<<Header(100)>>, <<>>),
     ChainTipset(<<Header(101)>>, <<>>),
     ChainTipset(<<Header(1000), Header(0)>>, <<>>)}

\* the tipsets the premium model appends
HistTipsets ==
    {ChainTipset(<<Header(100)>>, <<>>),
     ChainTipset(<<Header(100), Header(100)>>, <<>>),
     ChainTipset(<<Header(100)>>, <<GasMsg(1, 2)>>),
     ChainTipset(<<Header(100)>>, <<GasMsg(0, 2)>>),
     ChainTipset(<<Header(100)>>, <<GasMsg(2, 1)>>),
     ChainTipset(<<Header(100)>>, <<GasMsg(0, 0), GasMsg(3, 5)>>)}

(***************************************************************************)
(* Message: the fields the estimators read or write.                       *)
(***************************************************************************)
Message(f, gl, gfc, gp) ==
    [from |-> f, gas_limit |-> gl, gas_fee_cap |-> gfc, gas_premium |-> gp]
MsgPremiums == {-1, 0, 1, 7}
FeeCapMsgs == {Message("f1", 0, 0, gp) : gp \in MsgPremiums}
QueueBlks == (-MaxQueueBlks..MaxQueueBlks) \cup {F64_POW_OVERFLOW}

(***************************************************************************)
(* gas_api.rs:40-44: (1.0 + 1/DENOM).powf(n) * 256 as the f64 handed to    *)
(* from_f64.  (1 + 1/8)^n = 9^n / 8^n; the product with 256 is exact in    *)
(* f64 for the small n evaluated here, and infinite from F64_POW_OVERFLOW. *)
(***************************************************************************)
\* trunc(1.125f64.powf(20.0) * 256.0): 9^20 does not fit TLC's integers
INCREASE_FACTOR_SHL8_20 == 2699

increase_factor_shl8(n) ==
    LET num == BASE_FEE_MAX_CHANGE_DENOM + 1
        den == BASE_FEE_MAX_CHANGE_DENOM
    IN  IF n >= F64_POW_OVERFLOW THEN Infinite
        ELSE IF n = 20 THEN Finite(INCREASE_FACTOR_SHL8_20)
        ELSE IF n >= 0 THEN Finite((Pow(num, n) * 256) \div Pow(den, n))
        ELSE Finite((Pow(den, -n) * 256) \div Pow(num, -n))

(***************************************************************************)
(* Variants of estimate_fee_cap with a slip in them.  no_premium: the      *)
(* message's premium is never added; last_header: the base fee is read     *)
(* from the last header of the heaviest tipset.                            *)
(***************************************************************************)
estimate_fee_cap_no_premium(c, msg, max_queue_blks) ==
    LET t == c[heaviest_tipset(c)]
        factor == BigInt_from_f64(increase_factor_shl8(max_queue_blks),
                                  ERR_FEE_CAP_CONVERT)
    IN  IF ~factor.ok THEN factor
        ELSE Ok((t.block_headers[1].parent_base_fee * factor.val) \div 256)

estimate_fee_cap_last_header(c, msg, max_queue_blks) ==
    LET t == c[heaviest_tipset(c)]
        parent_base_fee == t.block_headers[Len(t.block_headers)].parent_base_fee
        factor == BigInt_from_f64(increase_factor_shl8(max_queue_blks),
                                  ERR_FEE_CAP_CONVERT)
    IN  IF ~factor.ok THEN factor
        ELSE Ok(((parent_base_fee * factor.val) \div 256) + msg.gas_premium)

(***************************************************************************)
(* estimate_fee_cap, gas_api.rs:31-49.                                     *)
(***************************************************************************)
estimate_fee_cap(c, msg, max_queue_blks) ==
    LET t == c[heaviest_tipset(c)]
        parent_base_fee == t.block_headers[1].parent_base_fee
        factor == BigInt_from_f64(increase_factor_shl8(max_queue_blks),
                                  ERR_FEE_CAP_CONVERT)
    IN  IF ~factor.ok THEN factor
        ELSE LET fee_in_future == parent_base_fee * factor.val
                 out == fee_in_future \div 256
             IN  Ok(out + msg.gas_premium)

(***************************************************************************)
(* estimate_gas_premium, gas_api.rs:62-141.                                *)
(***************************************************************************)
\* gas_api.rs:84-87: the chain store's load of the parents of chain[i]
load_required_tipset(c, i, store_ok) ==
    IF store_ok THEN Ok(i - 1) ELSE Err(ERR_LOAD_TIPSET)

\* gas_api.rs:91-99: the (price, limit) pairs of a tipset's messages
gas_metas(msgs) ==
    [k \in 1..Len(msgs) |->
        [price |-> msgs[k].gas_premium, limit |-> msgs[k].gas_limit]]

\* Faulty variant of walk: every parent tipset counts as one block.
RECURSIVE walk_count_tipsets(_, _, _, _, _, _, _)
walk_count_tipsets(c, i, left, store_ok, blocks, prices, loads) ==
    IF left = 0 \/ epoch(c, i) = 0
    THEN [ok |-> TRUE, err |-> "", blocks |-> blocks, prices |-> prices,
          loads |-> loads]
    ELSE LET pts == load_required_tipset(c, i, store_ok)
         IN  IF ~pts.ok
             THEN [ok |-> FALSE, err |-> pts.err, blocks |-> blocks,
                   prices |-> prices, loads |-> loads]
             ELSE walk_count_tipsets(c, pts.val, left - 1, store_ok,
                       blocks + 1,
                       prices \o gas_metas(c[pts.val].msgs), loads + 1)

\* gas_api.rs:80-101: the walk from chain[i] with `left` iterations to go
RECURSIVE walk(_, _, _, _, _, _, _)
walk(c, i, left, store_ok, blocks, prices, loads) ==
    IF left = 0 \/ epoch(c, i) = 0
    THEN [ok |-> TRUE, err |-> "", blocks |-> blocks, prices |-> prices,
          loads |-> loads]
    ELSE LET pts == load_required_tipset(c, i, store_ok)
         IN  IF ~pts.ok
             THEN [ok |-> FALSE, err |-> pts.err, blocks |-> blocks,
                   prices |-> prices, loads |-> loads]
             ELSE walk(c, pts.val, left - 1, store_ok,
                       blocks + Len(c[pts.val].block_headers),
                       prices \o gas_metas(c[pts.val].msgs), loads + 1)

\* gas_api.rs:103: sort_by(|a, b| b.price.cmp(&a.price)), a stable sort
RECURSIVE insert_desc(_, _)
insert_desc(s, x) ==
    IF s = <<>> THEN <<x>>
    ELSE IF s[1].price >= x.price THEN <<s[1]>> \o insert_desc(Tail(s), x)
    ELSE <<x>> \o s

RECURSIVE sort_desc(_)
sort_desc(s) ==
    IF s = <<>> THEN <<>>
    ELSE insert_desc(sort_desc(SubSeq(s, 1, Len(s) - 1)), s[Len(s)])

\* gas_api.rs:108-119: the loop over the sorted prices from position i.
\* `at -= price.limit` on a u64: below zero it panics in a build with
\* overflow checks and wraps in one without.
\* `wrapped` records whether a subtraction wrapped around.
RECURSIVE premium_loop(_, _, _, _, _, _, _)
premium_loop(prices, i, at, prev, premium, overflow_checks, wrapped) ==
    IF i > Len(prices)
    THEN [kind |-> "done", premium |-> premium, wrapped |-> wrapped]
    ELSE LET price == prices[i]
         IN  IF price.limit > at /\ overflow_checks
             THEN [kind |-> "panic", premium |-> premium, wrapped |-> wrapped]
             ELSE LET at1 == (at - price.limit) % U64_MODULUS
                      w1 == wrapped \/ price.limit > at
                  IN  IF at1 > 0
                      THEN premium_loop(prices, i + 1, at1, price.price,
                                        premium, overflow_checks, w1)
                      ELSE IF prev = 0
                      THEN [kind |-> "return", premium |-> price.price + 1,
                            wrapped |-> w1]
                      ELSE premium_loop(prices, i + 1, at1, prev,
                                        ((price.price + prev) \div 2) + 1,
                                        overflow_checks, w1)

\* Faulty variant of default_premium: one default whatever nblocksincl is.
default_premium_flat(nblocksincl) == MIN_GAS_PREMIUM

\* gas_api.rs:121-127: the default premium
default_premium(nblocksincl) ==
    CASE nblocksincl = 1 -> MIN_GAS_PREMIUM * 2
      [] nblocksincl = 2 -> (MIN_GAS_PREMIUM * 3) \div 2
      [] OTHER -> MIN_GAS_PREMIUM

\* gas_api.rs:129-138: premium * from_f64(noise * 2^precision) / 2^precision
apply_noise(premium, noise) ==
    LET f == BigInt_from_f64(noise, ERR_PREMIUM_CONVERT)
    IN  IF ~f.ok THEN f
        ELSE Ok((premium * f.val) \div Pow(2, PrecisionBits))

\* The call: its outcome (res) and the locals it ends with.  `early` is the
\* return of line 116, `noised` tells whether the noise step was reached.
estimate_gas_premium(c, nblocksincl0, noise, store_ok, overflow_checks) ==
    LET nblocksincl == IF nblocksincl0 = 0 THEN 1 ELSE nblocksincl0
        w == walk(c, heaviest_tipset(c), nblocksincl * 2, store_ok, 0, <<>>, 0)
        prices == sort_desc(w.prices)
        at == (BLOCK_GAS_TARGET * w.blocks) \div 2
        l == premium_loop(prices, 1, at, 0, 0, overflow_checks, FALSE)
        premium == IF l.premium = 0 THEN default_premium(nblocksincl)
                   ELSE l.premium
        locals == [blocks |-> w.blocks, prices |-> prices, loads |-> w.loads,
                   at |-> at]
    IN  IF ~w.ok
        THEN [res |-> Err(w.err), early |-> FALSE, premium |-> 0,
              noised |-> FALSE, wrapped |-> FALSE] @@ locals
        ELSE IF l.kind = "panic"
        THEN [res |-> Err(PANIC_SUB_OVERFLOW), early |-> FALSE,
              premium |-> l.premium, noised |-> FALSE,
              wrapped |-> l.wrapped] @@ locals
        ELSE IF l.kind = "return"
        THEN [res |-> Ok(l.premium), early |-> TRUE, premium |-> l.premium,
              noised |-> FALSE, wrapped |-> l.wrapped] @@ locals
        ELSE [res |-> apply_noise(premium, noise), early |-> FALSE,
              premium |-> premium, noised |-> TRUE, wrapped |-> l.wrapped]
                @@ locals

(***************************************************************************)
(* The noise drawn at gas_api.rs:132-134, times 2^precision: values just   *)
(* below, at and above 1.0, and one percent off; NaN for a draw that       *)
(* from_f64 cannot convert.                                                *)
(***************************************************************************)
NoiseScale == Pow(2, PrecisionBits)
Noises ==
    {Finite(NoiseScale - (NoiseScale \div 100)), Finite(NoiseScale - 1),
     Finite(NoiseScale), Finite(NoiseScale + (NoiseScale \div 100)), NaN}

(***************************************************************************)
(* Gas specifications: the chain grows by head changes, and the RPC layer  *)
(* calls the estimators against the chain store.                           *)
(***************************************************************************)
NoEstimate == [op |-> "none"]

\* no WebSocket connection handled
IdleWs ==
    /\ conn = [reject_v1_methods |-> FALSE, pc |-> "ended",
               socket_active |-> FALSE]
    /\ ws_sender = [writer |-> 0, open |-> FALSE]
    /\ frames = <<>>

IdleWeight ==
    /\ db = [tree |-> "ok", actor |-> "some", load |-> "ok", tpow |-> 1]
    /\ ts = [block_headers |-> <<Proof(1)>>, weight |-> 0]
    /\ wRes = NoCall
    /\ wPrev = NoCall
    /\ wCalls = 0

\* A call of estimate_gas_limit or estimate_message_gas that has not returned.
InProgress ==
    /\ last.op \in {"estimate_gas_limit", "estimate_message_gas"}
    /\ last.pc # "done"

\* the pool at genesis with nothing pending
EmptyPool == [cur_tipset |-> 1, pending |-> <<>>]

IdleGas ==
    /\ chain = <<Genesis>>
    /\ build = [overflow_checks |-> FALSE]
    /\ mpool = EmptyPool
    /\ last = NoEstimate

InitGas ==
    /\ chain = <<Genesis>>
    /\ build \in [overflow_checks : BOOLEAN]
    /\ mpool = EmptyPool
    /\ last = NoEstimate
    /\ IdleWeight
    /\ IdleWs

\* The heaviest tipset advances; `last` is the record of a call against the
\* current chain, so it is dropped.
HeadChange(tipsets) ==
    /\ Len(chain) < MaxChain
    /\ \E t \in tipsets : chain' = Append(chain, t)
    /\ last' = NoEstimate
    /\ UNCHANGED <<build, mpool>>
    /\ UNCHANGED weightVars
    /\ UNCHANGED wsVars

HeadChangeFee == HeadChange(FeeTipsets)

HeadChangeHist == HeadChange(HistTipsets)

\* The RPC wrapper hands the outcome to the client; the next call can start.
Deliver ==
    /\ last.op # "none"
    /\ ~InProgress
    /\ last' = NoEstimate
    /\ UNCHANGED <<chain, build, mpool>>
    /\ UNCHANGED weightVars
    /\ UNCHANGED wsVars

EstimateFeeCap ==
    /\ last.op = "none"
    /\ \E msg \in FeeCapMsgs, n \in QueueBlks :
          last' = [op |-> "estimate_fee_cap", msg |-> msg,
                   max_queue_blks |-> n,
                   res |-> estimate_fee_cap(chain, msg, n)]
    /\ UNCHANGED <<chain, build, mpool>>
    /\ UNCHANGED weightVars
    /\ UNCHANGED wsVars

EstimateGasPremium ==
    /\ last.op = "none"
    /\ \E n \in 0..MaxNBlocks, noise \in Noises, store_ok \in BOOLEAN :
          last' = [op |-> "estimate_gas_premium", nblocksincl |-> n,
                   noise |-> noise, store_ok |-> store_ok]
                  @@ estimate_gas_premium(chain, n, noise, store_ok,
                                          build.overflow_checks)
    /\ UNCHANGED <<chain, build, mpool>>
    /\ UNCHANGED weightVars
    /\ UNCHANGED wsVars

NextFeeCap == HeadChangeFee \/ EstimateFeeCap \/ Deliver
SpecFeeCap == InitGas /\ [][NextFeeCap]_vars

NextPremium == HeadChangeHist \/ EstimateGasPremium \/ Deliver
SpecPremium == InitGas /\ [][NextPremium]_vars

(***************************************************************************)
(* estimate_gas_limit and estimate_message_gas, gas_api.rs:154-238.        *)
(* Both await the state manager, so a call is a sequence of steps with     *)
(* head changes of the chain store and of the message pool in between.     *)
(* Gas used and the gas limit estimated from it are raw gas amounts;       *)
(* BLOCK_GAS_LIMIT, which is only stored and compared, is in gas units.    *)
(***************************************************************************)
MaxMsgChain == 3     \* tipsets of the chain under these two calls

MINIMUM_BASE_FEE == 100
BLOCK_GAS_LIMIT == 8
\* u64::MAX, which is what `-1i64 as u64` gives, at the width of TLC
U64_MAX == 2147483647

ERR_RESOLVE == "resolve_to_key_addr failed"
ERR_CALL_WITH_GAS == "call_with_gas failed"

ID_ADDR == "f0100"    \* an ID address
KEY_ADDR == "f1abc"   \* the key address ID_ADDR resolves to

\* Faulty variant of as_u64: a negative value becomes 0.
as_u64_saturating(x) == IF x < 0 THEN 0 ELSE x

\* gas_api.rs:224: `gl as u64`
as_u64(x) == IF x < 0 THEN U64_MAX + (x + 1) ELSE x

\* the messages handed to the two calls
GasMessages ==
    {Message(f, gl, gfc, gp) : f \in {ID_ADDR, KEY_ADDR}, gl \in {0, 5},
                               gfc \in {0, 300}, gp \in {0, 9}}

\* the tipsets appended under the two calls
MsgTipsets ==
    {ChainTipset(<<Header(100)>>, <<>>),
     ChainTipset(<<Header(1000)>>, <<GasMsg(2, 5)>>)}

\* the pending messages of the pool, by key address
Pendings == {<<>>, (KEY_ADDR :> <<"m1", "m2">>)}

\* the noise drawn inside estimate_message_gas
MsgNoises == {Finite(NoiseScale), Finite(NoiseScale + (NoiseScale \div 100)),
              NaN}

\* gas_api.rs:179-184: what call_with_gas can answer
Receipt(e, g) == [exit_code |-> e, gas_used |-> g]
CallOutcomes ==
    {Err(ERR_CALL_WITH_GAS), Ok([msg_rct |-> <<>>]),
     Ok([msg_rct |-> <<Receipt(0, 0)>>]),
     Ok([msg_rct |-> <<Receipt(0, 1000)>>]),
     Ok([msg_rct |-> <<Receipt(16, 1000)>>])}

\* gas_api.rs:162-165: the copy that is executed speculatively
speculative(msg) ==
    [msg EXCEPT !.gas_limit = BLOCK_GAS_LIMIT,
                !.gas_fee_cap = MINIMUM_BASE_FEE + 1,
                !.gas_premium = 1]

\* gas_api.rs:168-171
resolve_to_key_addr(addr, state_ok) ==
    IF ~state_ok THEN Err(ERR_RESOLVE)
    ELSE Ok(IF addr = ID_ADDR THEN KEY_ADDR ELSE addr)

\* Faulty variant of pending_for: the pending messages come newest first.
pending_for_reversed(mp, a) ==
    IF a \in DOMAIN mp.pending
    THEN [k \in 1..Len(mp.pending[a]) |->
             mp.pending[a][Len(mp.pending[a]) + 1 - k]]
    ELSE <<>>

\* gas_api.rs:173-176: pending_for, a missing entry giving no prior message
pending_for(mp, a) ==
    IF a \in DOMAIN mp.pending THEN mp.pending[a] ELSE <<>>

\* Faulty variant of gas_limit_result: the exit code is not looked at.
gas_limit_result_any_exit(out) ==
    IF ~out.ok THEN out
    ELSE IF out.val.msg_rct # <<>>
    THEN Ok(out.val.msg_rct[1].gas_used + 200000)
    ELSE Ok(-1)

\* Faulty variant of gas_limit_result: the gas used is returned as it is.
gas_limit_result_no_margin(out) ==
    IF ~out.ok THEN out
    ELSE IF out.val.msg_rct # <<>>
    THEN LET rct == out.val.msg_rct[1]
         IN  IF rct.exit_code # 0 THEN Ok(-1) ELSE Ok(rct.gas_used)
    ELSE Ok(-1)

\* Faulty variant of gas_limit_result: a missing receipt is an error.
gas_limit_result_no_receipt_error(out) ==
    IF ~out.ok THEN out
    ELSE IF out.val.msg_rct # <<>>
    THEN LET rct == out.val.msg_rct[1]
         IN  IF rct.exit_code # 0 THEN Ok(-1)
             ELSE Ok(rct.gas_used + 200000)
    ELSE Err("no receipt")

\* gas_api.rs:179-194: the answer of estimate_gas_limit
gas_limit_result(out) ==
    IF ~out.ok THEN out
    ELSE IF out.val.msg_rct # <<>>
    THEN LET rct == out.val.msg_rct[1]
         IN  IF rct.exit_code # 0 THEN Ok(-1)
             ELSE Ok(rct.gas_used + 200000)
    ELSE Ok(-1)

\* A call record: the message received (msg0), the working copy (msg), the
\* locals of estimate_gas_limit, the sub-estimates invoked so far (calls)
\* and the outcome (res).
Begin(op, pc, msg) ==
    [op |-> op, pc |-> pc, msg0 |-> msg, msg |-> msg,
     spec_msg |-> msg, curr_ts |-> 0, from_a |-> "", prior |-> <<>>, ts |-> 0,
     out |-> NoCall, gl |-> NoCall, calls |-> <<>>, res |-> NoCall]

SubCall(fn, head, res) == [fn |-> fn, head |-> head, res |-> res]

Fail(st, e) == [st EXCEPT !.pc = "done", !.res = Err(e)]

\* gas_api.rs:161-167: up to the await of resolve_to_key_addr
gas_limit_begin(c, st) ==
    [st EXCEPT !.pc = "resolve", !.spec_msg = speculative(st.msg),
               !.curr_ts = heaviest_tipset(c)]

\* Faulty variant of message_gas_limit: estimate_gas_limit worked on the
\* caller's message instead of a clone.
message_gas_limit_shared(st, gl) ==
    IF ~gl.ok
    THEN Fail([st EXCEPT !.calls =
                  Append(@, SubCall("estimate_gas_limit", st.curr_ts, gl))],
              gl.err)
    ELSE [st EXCEPT !.pc = "premium",
                    !.msg = [st.spec_msg EXCEPT !.gas_limit = as_u64(gl.val)],
                    !.calls = Append(@, SubCall("estimate_gas_limit",
                                                st.curr_ts, gl))]

\* gas_api.rs:222-225: the gas limit step of estimate_message_gas
message_gas_limit(st, gl) ==
    IF ~gl.ok
    THEN Fail([st EXCEPT !.calls =
                  Append(@, SubCall("estimate_gas_limit", st.curr_ts, gl))],
              gl.err)
    ELSE [st EXCEPT !.pc = "premium",
                    !.msg = [st.msg EXCEPT !.gas_limit = as_u64(gl.val)],
                    !.calls = Append(@, SubCall("estimate_gas_limit",
                                                st.curr_ts, gl))]

\* Faulty variant of message_gas_premium: a failed estimate is skipped over.
message_gas_premium_lenient(c, st, gp) ==
    IF st.msg.gas_premium # 0 THEN [st EXCEPT !.pc = "fee_cap"]
    ELSE [st EXCEPT !.pc = "fee_cap",
                    !.msg = [st.msg EXCEPT !.gas_premium = gp.val],
                    !.calls = Append(@, SubCall("estimate_gas_premium",
                                                heaviest_tipset(c), gp))]

\* gas_api.rs:226-229: the premium step, gp being the estimate's outcome
message_gas_premium(c, st, gp) ==
    IF st.msg.gas_premium # 0 THEN [st EXCEPT !.pc = "fee_cap"]
    ELSE IF ~gp.ok
    THEN Fail([st EXCEPT !.calls =
                  Append(@, SubCall("estimate_gas_premium",
                                    heaviest_tipset(c), gp))],
              gp.err)
    ELSE [st EXCEPT !.pc = "fee_cap",
                    !.msg = [st.msg EXCEPT !.gas_premium = gp.val],
                    !.calls = Append(@, SubCall("estimate_gas_premium",
                                                heaviest_tipset(c), gp))]

\* Faulty variant of message_gas_fee_cap: the fee cap is estimated for the
\* message as it was received.
message_gas_fee_cap_early(c, st) ==
    IF st.msg.gas_fee_cap # 0
    THEN [st EXCEPT !.pc = "done", !.res = Ok(st.msg)]
    ELSE LET gfp == estimate_fee_cap(c, st.msg0, 20)
             called == [st EXCEPT !.calls =
                           Append(@, SubCall("estimate_fee_cap",
                                             heaviest_tipset(c), gfp))]
         IN  IF ~gfp.ok THEN Fail(called, gfp.err)
             ELSE LET msg == [st.msg EXCEPT !.gas_fee_cap = gfp.val]
                  IN  [called EXCEPT !.pc = "done", !.msg = msg,
                                     !.res = Ok(msg)]

\* gas_api.rs:230-237: the fee cap step and the return
message_gas_fee_cap(c, st) ==
    IF st.msg.gas_fee_cap # 0
    THEN [st EXCEPT !.pc = "done", !.res = Ok(st.msg)]
    ELSE LET gfp == estimate_fee_cap(c, st.msg, 20)
             called == [st EXCEPT !.calls =
                           Append(@, SubCall("estimate_fee_cap",
                                             heaviest_tipset(c), gfp))]
         IN  IF ~gfp.ok THEN Fail(called, gfp.err)
             ELSE LET msg == [st.msg EXCEPT !.gas_fee_cap = gfp.val]
                  IN  [called EXCEPT !.pc = "done", !.msg = msg,
                                     !.res = Ok(msg)]

InitMsgGas ==
    /\ chain = <<Genesis>>
    /\ build \in [overflow_checks : BOOLEAN]
    /\ mpool \in [cur_tipset : {1}, pending : Pendings]
    /\ last = NoEstimate
    /\ IdleWeight
    /\ IdleWs

\* The chain store takes a new heaviest tipset.  A call that has returned
\* was a call against the former chain and its record is dropped.
HeadChangeMsg ==
    /\ Len(chain) < MaxMsgChain
    /\ \E t \in MsgTipsets : chain' = Append(chain, t)
    /\ last' = IF InProgress THEN last ELSE NoEstimate
    /\ UNCHANGED <<build, mpool>>
    /\ UNCHANGED weightVars
    /\ UNCHANGED wsVars

\* The message pool follows the chain store, one head change at a time.
MpoolHeadChange ==
    /\ mpool.cur_tipset < Len(chain)
    /\ mpool' = [mpool EXCEPT !.cur_tipset = @ + 1]
    /\ UNCHANGED <<chain, build, last>>
    /\ UNCHANGED weightVars
    /\ UNCHANGED wsVars

\* gas_estimate_gas_limit (gas_api.rs:143-152) enters estimate_gas_limit.
EstimateGasLimit ==
    /\ last.op = "none"
    /\ \E msg \in GasMessages :
          last' = gas_limit_begin(chain,
                                  Begin("estimate_gas_limit", "start", msg))
    /\ UNCHANGED <<chain, build, mpool>>
    /\ UNCHANGED weightVars
    /\ UNCHANGED wsVars

\* gas_estimate_message_gas (gas_api.rs:197-210) enters estimate_message_gas,
\* which enters estimate_gas_limit for a message without a gas limit.
EstimateMessageGas ==
    /\ last.op = "none"
    /\ \E msg \in GasMessages :
          last' = IF msg.gas_limit = 0
                  THEN gas_limit_begin(chain,
                           Begin("estimate_message_gas", "start", msg))
                  ELSE Begin("estimate_message_gas", "premium", msg)
    /\ UNCHANGED <<chain, build, mpool>>
    /\ UNCHANGED weightVars
    /\ UNCHANGED wsVars

\* gas_api.rs:168-178: the address is resolved, the pool is read and
\* call_with_gas is awaited.
ResolveToKeyAddr ==
    /\ InProgress /\ last.pc = "resolve"
    /\ \E state_ok \in BOOLEAN :
          LET from_a == resolve_to_key_addr(last.spec_msg.from, state_ok)
          IN  last' =
                IF ~from_a.ok
                THEN IF last.op = "estimate_gas_limit"
                     THEN Fail([last EXCEPT !.gl = from_a], from_a.err)
                     ELSE message_gas_limit([last EXCEPT !.gl = from_a],
                                            from_a)
                ELSE [last EXCEPT !.pc = "call", !.from_a = from_a.val,
                                  !.prior = pending_for(mpool, from_a.val),
                                  !.ts = mpool.cur_tipset]
    /\ UNCHANGED <<chain, build, mpool>>
    /\ UNCHANGED weightVars
    /\ UNCHANGED wsVars

\* Faulty variant of CallWithGas: the pending messages handed to the
\* execution are taken out of the pool.
CallWithGasDraining ==
    /\ InProgress /\ last.pc = "call"
    /\ \E out \in CallOutcomes :
          LET gl == gas_limit_result(out)
              st == [last EXCEPT !.out = out, !.gl = gl]
          IN  last' = IF last.op = "estimate_gas_limit"
                      THEN [st EXCEPT !.pc = "done", !.res = gl]
                      ELSE message_gas_limit(st, gl)
    /\ mpool' = [mpool EXCEPT !.pending = <<>>]
    /\ UNCHANGED <<chain, build>>
    /\ UNCHANGED weightVars
    /\ UNCHANGED wsVars

\* gas_api.rs:179-194: call_with_gas answers and estimate_gas_limit returns.
CallWithGas ==
    /\ InProgress /\ last.pc = "call"
    /\ \E out \in CallOutcomes :
          LET gl == gas_limit_result(out)
              st == [last EXCEPT !.out = out, !.gl = gl]
          IN  last' = IF last.op = "estimate_gas_limit"
                      THEN [st EXCEPT !.pc = "done", !.res = gl]
                      ELSE message_gas_limit(st, gl)
    /\ UNCHANGED <<chain, build, mpool>>
    /\ UNCHANGED weightVars
    /\ UNCHANGED wsVars

\* gas_api.rs:226-229
MessageGasPremium ==
    /\ InProgress /\ last.pc = "premium"
    /\ \E noise \in MsgNoises, store_ok \in BOOLEAN :
          last' = message_gas_premium(chain, last,
                      estimate_gas_premium(chain, 10, noise, store_ok,
                                           build.overflow_checks).res)
    /\ UNCHANGED <<chain, build, mpool>>
    /\ UNCHANGED weightVars
    /\ UNCHANGED wsVars

\* gas_api.rs:230-237
MessageGasFeeCap ==
    /\ InProgress /\ last.pc = "fee_cap"
    /\ last' = message_gas_fee_cap(chain, last)
    /\ UNCHANGED <<chain, build, mpool>>
    /\ UNCHANGED weightVars
    /\ UNCHANGED wsVars

NextMsgGas ==
    \/ HeadChangeMsg \/ MpoolHeadChange
    \/ EstimateGasLimit \/ EstimateMessageGas
    \/ ResolveToKeyAddr \/ CallWithGas
    \/ MessageGasPremium \/ MessageGasFeeCap
    \/ EstimateFeeCap \/ EstimateGasPremium
    \/ Deliver
SpecMsgGas == InitMsgGas /\ [][NextMsgGas]_vars

(***************************************************************************)
(* The weight specification: the chain-sync collaborator presents a        *)
(* tipset and the blockstore state at its parent state root, and calls     *)
(* weight() on it any number of times.                                     *)
(***************************************************************************)
InitWeight ==
    /\ db \in PowerActorDBs
    /\ ts \in Tipsets
    /\ wRes = NoCall
    /\ wPrev = NoCall
    /\ wCalls = 0
    /\ IdleGas
    /\ IdleWs

\* Variant of WeightCall that accumulates into the tipset's own weight field.
WeightCallInPlace ==
    /\ wCalls < MaxWeightCalls
    /\ wPrev' = wRes
    /\ wRes' = weight(db, ts)
    /\ wCalls' = wCalls + 1
    /\ ts' = IF weight(db, ts).ok
                THEN [ts EXCEPT !.weight = weight(db, ts).val] ELSE ts
    /\ UNCHANGED db
    /\ UNCHANGED gasVars
    /\ UNCHANGED wsVars

WeightCall ==
    /\ wCalls < MaxWeightCalls
    /\ wPrev' = wRes
    /\ wRes' = weight(db, ts)
    /\ wCalls' = wCalls + 1
    /\ UNCHANGED <<db, ts>>
    /\ UNCHANGED gasVars
    /\ UNCHANGED wsVars

PresentTipset ==
    /\ wCalls > 0
    /\ ts' \in Tipsets
    /\ ts' # ts
    /\ wRes' = NoCall
    /\ wPrev' = NoCall
    /\ wCalls' = 0
    /\ UNCHANGED db
    /\ UNCHANGED gasVars
    /\ UNCHANGED wsVars

NextWeight == WeightCall \/ PresentTipset

SpecWeight == InitWeight /\ [][NextWeight]_vars

(***************************************************************************)
(* WebSocket RPC handler, src/src/rpc/rpc_ws_handler.rs.  One connection:  *)
(* the receive loop of rpc_ws_handler_inner, the tasks it spawns and the   *)
(* sender they share behind a lock.  frames[k] is the k-th frame received, *)
(* with the position of the task spawned for it ("none" when there is      *)
(* none) and the frames written to the socket because of it.               *)
(***************************************************************************)
MaxFrames == 2       \* frames received on the connection

INVALID_JSON == "{"
V0_REQUEST == "request of a v0 method"
V1_REQUEST == "request of a v1 method"
ERR_DESERIALIZE == "serde_json error"

\* axum's Message: Text and Binary carry data, Ping stands for the others
WsMessage(kind, data) == [kind |-> kind, data |-> data]
WsMessages ==
    {WsMessage(k, d) : k \in {"Text", "Binary"},
                       d \in {"", INVALID_JSON, V0_REQUEST, V1_REQUEST}}
        \cup {WsMessage("Ping", INVALID_JSON)}

TextMessages == {m \in WsMessages : m.kind = "Text"}

\* get_error_str(code, msg) and the response of call_rpc_str as text frames
ErrorFrame(code) == [text |-> "error", code |-> code]
ResponseFrame == [text |-> "response", code |-> 0]

\* serde_json::from_str / from_slice into a RequestObject
from_str(data) ==
    IF data \in {V0_REQUEST, V1_REQUEST} THEN Ok(data)
    ELSE Err(ERR_DESERIALIZE)

\* rpc_util::is_v1_method on the method of a request
is_v1_method(rpc_call) == rpc_call = V1_REQUEST

\* Faulty variant of payload: an empty frame is parsed like any other.
payload_parse_empty(message) ==
    IF message.kind \in {"Text", "Binary"}
    THEN <<from_str(message.data)>>
    ELSE <<>>

\* rpc_ws_handler.rs:90-107: Option as a sequence of at most one element
payload(message) ==
    IF message.kind \in {"Text", "Binary"}
    THEN IF message.data # "" THEN <<from_str(message.data)>> ELSE <<>>
    ELSE <<>>

\* Faulty variant of dispatch: no method is rejected.
dispatch_all(reject_v1_methods, message) ==
    LET p == payload(message)
    IN  IF p = <<>> THEN "skip"
        ELSE IF ~p[1].ok THEN "deserialize_error"
        ELSE "spawn"

\* rpc_ws_handler.rs:109-165: what the loop does with a frame
dispatch(reject_v1_methods, message) ==
    LET p == payload(message)
    IN  IF p = <<>> THEN "skip"
        ELSE IF ~p[1].ok THEN "deserialize_error"
        ELSE IF reject_v1_methods /\ is_v1_method(p[1].val) THEN "reject"
        ELSE "spawn"

Received(message, task) ==
    [message |-> message, task |-> task, allowed |-> "pending",
     called |-> "pending", sent |-> <<>>]

\* rpc_v0_ws_handler (reject_v1_methods) or rpc_ws_handler has upgraded a
\* connection.
InitWs ==
    /\ conn \in [reject_v1_methods : BOOLEAN, pc : {"recv"},
                 socket_active : {TRUE}]
    /\ ws_sender = [writer |-> 0, open |-> TRUE]
    /\ frames = <<>>
    /\ IdleWeight
    /\ IdleGas

\* rpc_ws_handler.rs:87-152: receiver.next() yields a frame; the loop runs
\* until its next await.
ReceiveFrom(messages) ==
    /\ conn.pc = "recv"
    /\ Len(frames) < MaxFrames
    /\ \E message \in messages :
          LET d == dispatch(conn.reject_v1_methods, message)
          IN  /\ frames' = Append(frames,
                    Received(message, IF d = "spawn" THEN "check_permissions"
                                      ELSE "none"))
              /\ conn' = [conn EXCEPT !.pc =
                    CASE d = "deserialize_error" -> "deserialize_lock"
                      [] d = "reject" -> "reject_lock"
                      [] OTHER -> "recv"]
    /\ UNCHANGED ws_sender
    /\ UNCHANGED weightVars
    /\ UNCHANGED gasVars

Receive == ReceiveFrom(WsMessages)

\* the same with text frames only
ReceiveText == ReceiveFrom(TextMessages)

\* rpc_ws_handler.rs:87, 168: the stream ends or yields an error
StreamEnd ==
    /\ conn.pc = "recv"
    /\ conn' = [conn EXCEPT !.pc = "ended", !.socket_active = FALSE]
    /\ UNCHANGED <<ws_sender, frames>>
    /\ UNCHANGED weightVars
    /\ UNCHANGED gasVars

\* the peer goes away: writes to the socket fail from now on
SocketBreak ==
    /\ ws_sender.open
    /\ ws_sender' = [ws_sender EXCEPT !.open = FALSE]
    /\ UNCHANGED <<conn, frames>>
    /\ UNCHANGED weightVars
    /\ UNCHANGED gasVars

\* rpc_ws_handler.rs:120-122, 156-158: the loop gets the write lock
HandlerLock ==
    /\ conn.pc \in {"deserialize_lock", "reject_lock"}
    /\ ws_sender.writer = 0
    /\ ws_sender' = [ws_sender EXCEPT !.writer = -1]
    /\ conn' = [conn EXCEPT !.pc = IF conn.pc = "reject_lock"
                                   THEN "reject_send"
                                   ELSE "deserialize_send"]
    /\ UNCHANGED frames
    /\ UNCHANGED weightVars
    /\ UNCHANGED gasVars

\* rpc_ws_handler.rs:120-125, 156-163: the error frame is sent and the lock
\* released.  After a rejection the handler returns, or panics on the
\* unwrap of a failed send; after a deserialization error it loops.
HandlerSend ==
    /\ conn.pc \in {"deserialize_send", "reject_send"}
    /\ LET k == Len(frames)
           code == IF conn.pc = "reject_send" THEN 3 ELSE 1
       IN  frames' = IF ws_sender.open
                     THEN [frames EXCEPT ![k].sent =
                              Append(@, ErrorFrame(code))]
                     ELSE frames
    /\ ws_sender' = [ws_sender EXCEPT !.writer = 0]
    /\ conn' = [conn EXCEPT !.pc =
          IF conn.pc = "deserialize_send" THEN "recv"
          ELSE IF ws_sender.open THEN "returned" ELSE "panicked"]
    /\ UNCHANGED weightVars
    /\ UNCHANGED gasVars

\* rpc_ws_handler.rs:34-36: check_permissions answers
TaskCheckPermissions(k) ==
    /\ k <= Len(frames)
    /\ frames[k].task = "check_permissions"
    /\ \E ok \in BOOLEAN :
          frames' = [frames EXCEPT
              ![k].allowed = IF ok THEN "ok" ELSE "error",
              ![k].task = IF ok THEN "call_rpc_str" ELSE "error_lock"]
    /\ UNCHANGED <<conn, ws_sender>>
    /\ UNCHANGED weightVars
    /\ UNCHANGED gasVars

\* rpc_ws_handler.rs:39: call_rpc_str answers
TaskCallRpcStr(k) ==
    /\ k <= Len(frames)
    /\ frames[k].task = "call_rpc_str"
    /\ \E ok \in BOOLEAN :
          frames' = [frames EXCEPT
              ![k].called = IF ok THEN "ok" ELSE "error",
              ![k].task = IF ok THEN "response_lock" ELSE "error_lock"]
    /\ UNCHANGED <<conn, ws_sender>>
    /\ UNCHANGED weightVars
    /\ UNCHANGED gasVars

\* Faulty variant of TaskLock: the sender is taken without its lock.
TaskLockUnguarded(k) ==
    /\ k <= Len(frames)
    /\ frames[k].task \in {"response_lock", "error_lock"}
    /\ ws_sender' = [ws_sender EXCEPT !.writer = k]
    /\ frames' = [frames EXCEPT ![k].task =
          IF @ = "response_lock" THEN "response_send" ELSE "error_send"]
    /\ UNCHANGED conn
    /\ UNCHANGED weightVars
    /\ UNCHANGED gasVars

\* rpc_ws_handler.rs:40-42, 143-145: the task gets the write lock
TaskLock(k) ==
    /\ k <= Len(frames)
    /\ frames[k].task \in {"response_lock", "error_lock"}
    /\ ws_sender.writer = 0
    /\ ws_sender' = [ws_sender EXCEPT !.writer = k]
    /\ frames' = [frames EXCEPT ![k].task =
          IF @ = "response_lock" THEN "response_send" ELSE "error_send"]
    /\ UNCHANGED conn
    /\ UNCHANGED weightVars
    /\ UNCHANGED gasVars

\* rpc_ws_handler.rs:43-46, 137-149: the frame is sent and the lock
\* released.  A response that cannot be sent makes rpc_ws_task fail, which
\* leads to the error frame; an error frame that cannot be sent panics the
\* task on the unwrap.
TaskSend(k) ==
    /\ k <= Len(frames)
    /\ frames[k].task \in {"response_send", "error_send"}
    /\ frames' = [frames EXCEPT
          ![k].sent =
              IF ~ws_sender.open THEN @
              ELSE IF frames[k].task = "response_send"
              THEN Append(@, ResponseFrame)
              ELSE Append(@, ErrorFrame(3)),
          ![k].task =
              IF ws_sender.open THEN "done"
              ELSE IF frames[k].task = "response_send" THEN "error_lock"
              ELSE "panicked"]
    /\ ws_sender' = [ws_sender EXCEPT !.writer = 0]
    /\ UNCHANGED conn
    /\ UNCHANGED weightVars
    /\ UNCHANGED gasVars

TaskStep(k) ==
    \/ TaskCheckPermissions(k) \/ TaskCallRpcStr(k)
    \/ TaskLock(k) \/ TaskSend(k)

NextWs ==
    \/ Receive \/ StreamEnd \/ SocketBreak
    \/ HandlerLock \/ HandlerSend
    \/ \E k \in 1..MaxFrames : TaskStep(k)
SpecWs == InitWs /\ [][NextWs]_vars

\* The runtime runs every spawned task, the collaborators answer, and a
\* task waiting for the write lock gets it once the lock stays free.
FairWs ==
    /\ WF_vars(HandlerSend)
    /\ \A k \in 1..MaxFrames :
          /\ WF_vars(TaskCheckPermissions(k))
          /\ WF_vars(TaskCallRpcStr(k))
          /\ WF_vars(TaskLock(k))
          /\ WF_vars(TaskSend(k))

\* The connection under text frames, with the scheduling above.
NextWsLive ==
    \/ ReceiveText \/ StreamEnd \/ SocketBreak
    \/ HandlerLock \/ HandlerSend
    \/ \E k \in 1..MaxFrames : TaskStep(k)
SpecWsLive == InitWs /\ [][NextWsLive]_vars /\ FairWs

(***************************************************************************)
(* Properties of weight().                                                 *)
(***************************************************************************)
PowerLoaded == db.tree = "ok" /\ db.actor = "some" /\ db.load = "ok"
AllProofs(t) == \A i \in 1..Len(t.block_headers) : t.block_headers[i].some
RECURSIVE SumWinCounts(_)
SumWinCounts(h) ==
    IF h = <<>> THEN 0 ELSE h[1].win_count + SumWinCounts(Tail(h))
RECURSIVE Pow2(_)
Pow2(n) == IF n = 0 THEN 1 ELSE 2 * Pow2(n - 1)
\* floor(log2(p)) for p > 0, by its defining inequality
FloorLog2(p) == CHOOSE l \in 0..p : Pow2(l) <= p /\ p < Pow2(l + 1)

\* C1 as claimed: with power P > 0 and an election proof on every header,
\* weight() returns exactly parent_weight + (log2_p << 8)
\* + floor(log2_p * 1 * 256 * total_win_count / (5 * 2)), log2_p = floor(log2 P);
\* P = 8, win counts 1 and 2, parent weight 1000 gives 1665.
C1_WeightFormulaExample1665 ==
    (wCalls > 0 /\ PowerLoaded /\ db.tpow > 0 /\ AllProofs(ts)) =>
        LET l == FloorLog2(db.tpow)
            j == SumWinCounts(ts.block_headers)
        IN  /\ wRes.ok
            /\ wRes.val = ts.weight + l * 256 + ((l * 1 * 256 * j) \div (5 * 2))
            /\ (db.tpow = 8 /\ j = 3 /\ ts.weight = 1000) => wRes.val = 1665

\* C1 as amended: the same formula, with log2_p = bit_length(P) - 1; for
\* P = 8 that is log2_p = 3, so win counts 1 and 2 and parent weight 1000
\* give 1000 + 768 + floor(2304 / 10) = 1998 (1665 is the weight for
\* P = 4..7, where log2_p = 2).
C1_WeightFormula ==
    (wCalls > 0 /\ PowerLoaded /\ db.tpow > 0 /\ AllProofs(ts)) =>
        LET l == FloorLog2(db.tpow)
            j == SumWinCounts(ts.block_headers)
        IN  /\ wRes.ok
            /\ wRes.val = ts.weight + l * 256 + ((l * 1 * 256 * j) \div (5 * 2))
            /\ (db.tpow = 8 /\ j = 3 /\ ts.weight = 1000) => wRes.val = 1998
            /\ (db.tpow \in 4..7 /\ j = 3 /\ ts.weight = 1000)
                  => wRes.val = 1665

C1_Witness ==
    /\ wCalls > 0 /\ PowerLoaded /\ db.tpow = 8
    /\ ts = [block_headers |-> <<Proof(1), Proof(2)>>, weight |-> 1000]
    /\ wRes = Ok(1998)

\* C2: for a tipset whose headers all carry an election proof with a
\* non-negative win count, and power > 0, the weight returned is at least the
\* tipset's parent weight.
NonNegativeWins(t) ==
    \A i \in 1..Len(t.block_headers) : t.block_headers[i].win_count >= 0

C2_WeightAtLeastParent ==
    (wCalls > 0 /\ PowerLoaded /\ db.tpow > 0 /\ AllProofs(ts)
        /\ NonNegativeWins(ts))
    => (wRes.ok /\ wRes.val >= ts.weight)

C2_Witness ==
    /\ wCalls > 0 /\ PowerLoaded /\ db.tpow > 1 /\ AllProofs(ts)
    /\ NonNegativeWins(ts) /\ ts.weight = 1000
    /\ wRes.ok /\ wRes.val > ts.weight

\* C3 as claimed: for fixed power P > 0 and fixed parent weight, the weight is
\* strictly increasing in the total win count.
SameParentWeight ==
    {[block_headers |-> h, weight |-> ts.weight] : h \in HeaderSeqs}

LargerTotal(t2) ==
    /\ t2.weight = ts.weight
    /\ AllProofs(t2)
    /\ SumWinCounts(t2.block_headers) > SumWinCounts(ts.block_headers)

C3_StrictlyIncreasing ==
    (wCalls > 0 /\ PowerLoaded /\ db.tpow > 0 /\ AllProofs(ts)) =>
        \A t2 \in SameParentWeight :
            LargerTotal(t2) => (wRes.ok /\ weight(db, t2).val > wRes.val)

\* C3 as amended: for fixed power P >= 2 and fixed parent weight the weight is
\* strictly increasing in the total win count; for P = 1 (log2_p = 0) the
\* weight equals the parent weight for every win count.
C3_StrictlyIncreasingFromTwo ==
    (wCalls > 0 /\ PowerLoaded /\ db.tpow > 0 /\ AllProofs(ts)) =>
        /\ wRes.ok
        /\ db.tpow >= 2 =>
              \A t2 \in SameParentWeight :
                  LargerTotal(t2) => weight(db, t2).val > wRes.val
        /\ db.tpow = 1 =>
              /\ wRes.val = ts.weight
              /\ \A t2 \in SameParentWeight :
                    LargerTotal(t2) => weight(db, t2).val = wRes.val

C3_Witness ==
    /\ wCalls > 0 /\ PowerLoaded /\ db.tpow = 2
    /\ ts = [block_headers |-> <<Proof(1)>>, weight |-> 0]
    /\ wRes = Ok(256 + 25)
    /\ weight(db, [block_headers |-> <<Proof(2)>>, weight |-> 0]) = Ok(256 + 51)

C5_NoPowerError ==
    (wCalls > 0 /\ PowerLoaded /\ db.tpow <= 0) => wRes = Err(ERR_NO_POWER)

C5_Witness ==
    /\ wCalls > 0 /\ PowerLoaded /\ db.tpow = 0
    /\ ~AllProofs(ts)
    /\ wRes = Err(ERR_NO_POWER)

\* C6: with power > 0, a tipset with at least one header without election
\* proof makes weight() fail with the missing-election-proof error, wherever
\* that header stands and whatever the other win counts are.
C6_MissingProofError ==
    (wCalls > 0 /\ PowerLoaded /\ db.tpow > 0 /\ ~AllProofs(ts))
    => wRes = Err(ERR_NO_ELECTION_PROOF)

C6_Witness ==
    /\ wCalls > 0 /\ PowerLoaded /\ db.tpow > 0
    /\ Len(ts.block_headers) = 2
    /\ ts.block_headers[1] = Proof(2) /\ ts.block_headers[2] = NoProof
    /\ wRes = Err(ERR_NO_ELECTION_PROOF)

\* C7: when the state tree at the parent state root holds no power actor,
\* weight() fails with the actor-not-found error and computes no weight.
C7_ActorNotFoundError ==
    (wCalls > 0 /\ db.tree = "ok" /\ db.actor = "none")
    => wRes = Err(ERR_NO_POWER_ACTOR)

C7_Witness ==
    /\ wCalls > 0 /\ db.tree = "ok" /\ db.actor = "none"
    /\ wRes = Err(ERR_NO_POWER_ACTOR) /\ ~wRes.ok

(***************************************************************************)
(* Properties of the gas estimators.                                       *)
(***************************************************************************)
FeeCapDone == last.op = "estimate_fee_cap"
PremiumDone == last.op = "estimate_gas_premium"
HeadBaseFee == chain[Len(chain)].block_headers[1].parent_base_fee

\* C8: for max_queue_blocks >= 0, a non-negative parent base fee and any
\* message, a successful estimate_fee_cap returns at least the message's gas
\* premium.
C8_FeeCapAtLeastPremium ==
    (FeeCapDone /\ last.res.ok /\ last.max_queue_blks >= 0 /\ HeadBaseFee >= 0)
    => last.res.val >= last.msg.gas_premium

C8_Witness ==
    /\ FeeCapDone /\ last.res.ok /\ last.max_queue_blks = 2
    /\ HeadBaseFee = 100 /\ last.msg.gas_premium = 7
    /\ last.res.val = 133

\* m is the truncation of (1 + 1/8)^n * 256, by its defining inequalities
IsTruncatedFactor(m, n) ==
    IF n >= 0
    THEN Pow(8, n) * m <= Pow(9, n) * 256 /\ Pow(9, n) * 256 < Pow(8, n) * (m + 1)
    ELSE Pow(9, -n) * m <= Pow(8, -n) * 256
            /\ Pow(8, -n) * 256 < Pow(9, -n) * (m + 1)

\* C9: estimate_fee_cap returns floor(parent_base_fee * m / 256) + gas_premium,
\* parent_base_fee read from the first header of the heaviest tipset and m the
\* truncation of (1 + 1/BASE_FEE_MAX_CHANGE_DENOM)^max_queue_blocks * 256; for
\* max_queue_blocks = 0 that is exactly parent_base_fee + gas_premium.
C9_FeeCapFormula ==
    (FeeCapDone /\ last.res.ok) =>
        LET n == last.max_queue_blks
            fee == last.res.val - last.msg.gas_premium
        IN  /\ \E m \in 0..1024 :
                  /\ IsTruncatedFactor(m, n)
                  /\ 256 * fee <= HeadBaseFee * m
                  /\ HeadBaseFee * m < 256 * (fee + 1)
            /\ n = 0 => last.res.val = HeadBaseFee + last.msg.gas_premium

C9_Witness ==
    /\ FeeCapDone /\ last.max_queue_blks = 3
    /\ chain[Len(chain)].block_headers = <<Header(1000), Header(0)>>
    /\ last.msg.gas_premium = 1
    /\ last.res = Ok(1421 + 1)

\* C10: a successful estimate_gas_premium returns a value strictly greater
\* than 0, for every chain history, nblocksincl and noise.
C10_PremiumPositive ==
    (PremiumDone /\ last.res.ok) => last.res.val > 0

\* the sum of the gas limits of the first k collected pairs
RECURSIVE PrefixLimit(_, _)
PrefixLimit(prices, k) ==
    IF k = 0 THEN 0 ELSE prices[k].limit + PrefixLimit(prices, k - 1)

\* the first position at which the budget `at` is used up (0: none)
Crossover(prices, at) ==
    IF \E k \in 1..Len(prices) : PrefixLimit(prices, k) >= at
    THEN CHOOSE k \in 1..Len(prices) :
            /\ PrefixLimit(prices, k) >= at
            /\ \A j \in 1..(k - 1) : PrefixLimit(prices, j) < at
    ELSE 0

HistoryLoaded == PremiumDone /\ last.res.err # ERR_LOAD_TIPSET
ClampedNBlocks == IF last.nblocksincl = 0 THEN 1 ELSE last.nblocksincl

\* C14: when the history yields no premium (nothing visited, no message
\* collected, or the budget never reached), the pre-noise premium is the
\* default for the clamped nblocksincl: 200000 for 0 or 1, 150000 for 2,
\* 100000 from 3 on; the noise is then applied to it.
C14_DefaultPremium ==
    (HistoryLoaded /\ Crossover(last.prices, last.at) = 0) =>
        /\ ClampedNBlocks = 1 => last.premium = 200000
        /\ ClampedNBlocks = 2 => last.premium = 150000
        /\ ClampedNBlocks >= 3 => last.premium = 100000
        /\ last.noised
        /\ last.noise.class = "finite" =>
              last.res = Ok((last.premium * last.noise.trunc) \div NoiseScale)

C14_Witness ==
    /\ PremiumDone /\ last.res.ok /\ ~last.early
    /\ last.nblocksincl = 2
    /\ last.prices # <<>> /\ Crossover(last.prices, last.at) = 0
    /\ last.premium = 150000
    /\ last.noise = Finite(NoiseScale)
    /\ last.res = Ok(150000)

\* C18: when the budget first becomes non-positive at message k of the list
\* sorted by premium descending, k not the first, the pre-noise premium is
\* floor((premium_k + premium_{k-1}) / 2) + 1, whatever messages follow k.
C18_CrossoverPremium ==
    LET k == Crossover(last.prices, last.at)
    IN  (HistoryLoaded /\ k > 1) =>
            last.premium =
                ((last.prices[k].price + last.prices[k - 1].price) \div 2) + 1

\* C19: the subtraction of a gas limit from the remaining budget never
\* underflows: no call panics on it and no budget wraps around.
C19_NoUnderflow ==
    PremiumDone => (last.res.err # PANIC_SUB_OVERFLOW /\ ~last.wrapped)

\* C20: when the gas limit of the first message of the sorted list reaches or
\* exceeds the budget, the call returns that message's premium plus one atto
\* at once, without noise.
C20_FirstMessageOverBudget ==
    (HistoryLoaded /\ Crossover(last.prices, last.at) = 1) =>
        (last.early /\ last.res = Ok(last.prices[1].price + 1))

GasLimitCall == last.op \in {"estimate_gas_limit", "estimate_message_gas"}
MessageGasCall == last.op = "estimate_message_gas"
MessageGasDone == MessageGasCall /\ last.pc = "done"
MessageGasOk == MessageGasDone /\ last.res.ok

\* C11: whenever the speculative execution answers with a receipt whose exit
\* code is not zero, estimate_gas_limit returns Ok(-1).
C11_NonZeroExitGivesMinusOne ==
    (GasLimitCall /\ last.out.ok /\ last.out.val.msg_rct # <<>>
        /\ last.out.val.msg_rct[1].exit_code # 0) =>
        /\ last.gl = Ok(-1)
        /\ last.op = "estimate_gas_limit" =>
              (last.pc = "done" /\ last.res = Ok(-1))

C11_Witness ==
    /\ last.op = "estimate_gas_limit" /\ last.pc = "done"
    /\ last.out = Ok([msg_rct |-> <<Receipt(16, 1000)>>])
    /\ last.res = Ok(-1)

\* C12: estimate_message_gas returns every field that was non-zero on input
\* as it was, `from` included, and the fee cap and premium that
\* estimate_gas_limit set on its speculative copy never show in the output:
\* a zero premium or fee cap is replaced by its own estimate.
C12_NonZeroFieldsKept ==
    MessageGasOk =>
        LET in == last.msg0
            out == last.res.val
            Est(fn) == {i \in 1..Len(last.calls) : last.calls[i].fn = fn}
        IN  /\ out.from = in.from
            /\ in.gas_limit # 0 => out.gas_limit = in.gas_limit
            /\ in.gas_premium # 0 => out.gas_premium = in.gas_premium
            /\ in.gas_fee_cap # 0 => out.gas_fee_cap = in.gas_fee_cap
            /\ in.gas_premium = 0 =>
                  \E i \in Est("estimate_gas_premium") :
                      out.gas_premium = last.calls[i].res.val
            /\ in.gas_fee_cap = 0 =>
                  \E i \in Est("estimate_fee_cap") :
                      out.gas_fee_cap = last.calls[i].res.val

C12_Witness ==
    /\ MessageGasOk
    /\ last.msg0 = Message(ID_ADDR, 0, 300, 9)
    /\ last.spec_msg = Message(ID_ADDR, BLOCK_GAS_LIMIT, 101, 1)
    /\ last.res.val = Message(ID_ADDR, 201000, 300, 9)

\* the rank of a sub-estimate in the order gas limit, premium, fee cap
Rank(fn) ==
    CASE fn = "estimate_gas_limit" -> 1
      [] fn = "estimate_gas_premium" -> 2
      [] fn = "estimate_fee_cap" -> 3

\* C13: estimate_message_gas invokes its sub-estimates in the order gas
\* limit, premium, fee cap, and a fee cap that was zero on input comes out as
\* the base fee of the heaviest tipset projected 20 epochs ahead plus the
\* premium of the output, so it is at least that premium.
C13_FeeCapAfterPremium ==
    MessageGasCall =>
        /\ \A i, j \in 1..Len(last.calls) :
              i < j => Rank(last.calls[i].fn) < Rank(last.calls[j].fn)
        /\ (MessageGasOk /\ last.msg0.gas_fee_cap = 0) =>
              LET out == last.res.val
                  fc == last.calls[Len(last.calls)]
                  base_fee == chain[fc.head].block_headers[1].parent_base_fee
              IN  /\ fc.fn = "estimate_fee_cap"
                  /\ out.gas_fee_cap =
                        ((base_fee * INCREASE_FACTOR_SHL8_20) \div 256)
                            + out.gas_premium
                  /\ out.gas_fee_cap >= out.gas_premium

C13_Witness ==
    /\ MessageGasOk
    /\ last.msg0 = Message(KEY_ADDR, 5, 0, 0)
    /\ Len(last.calls) = 2
    /\ last.calls[1].head = 1 /\ last.calls[2].head = 2
    /\ chain[2].block_headers[1].parent_base_fee = 1000
    /\ last.res.val = Message(KEY_ADDR, 5, 110542, 100000)

\* C15: estimate_fee_cap and estimate_gas_premium return the numeric
\* conversion error exactly when the multiplier they convert (the increase
\* factor times 2^8, the noise times 2^precision) is infinite or NaN; with a
\* finite multiplier the conversion succeeds and the amount is returned.
C15_ConversionErrors ==
    /\ last.op = "estimate_fee_cap" =>
          IF last.max_queue_blks >= F64_POW_OVERFLOW
          THEN last.res = Err(ERR_FEE_CAP_CONVERT)
          ELSE last.res.ok
    /\ last.op = "estimate_gas_premium" =>
          IF last.noised
          THEN IF last.noise.class = "finite" THEN last.res.ok
               ELSE last.res = Err(ERR_PREMIUM_CONVERT)
          ELSE last.res.err # ERR_PREMIUM_CONVERT

C15_Witness ==
    /\ last.op = "estimate_gas_premium"
    /\ last.noised /\ last.noise = NaN
    /\ last.res = Err(ERR_PREMIUM_CONVERT)

\* C16: a sub-estimate of estimate_message_gas that fails ends the call at
\* once with that very error: nothing is invoked after it, nothing is
\* invoked twice, and no message is returned.
C16_ErrorsSurfaceAtOnce ==
    MessageGasCall =>
        /\ \A i \in 1..Len(last.calls) :
              ~last.calls[i].res.ok =>
                  /\ i = Len(last.calls)
                  /\ last.pc = "done"
                  /\ last.res = Err(last.calls[i].res.err)
        /\ \A i, j \in 1..Len(last.calls) :
              last.calls[i].fn = last.calls[j].fn => i = j
        /\ (last.pc = "done" /\ ~last.res.ok) =>
              /\ last.calls # <<>>
              /\ ~last.calls[Len(last.calls)].res.ok

C16_Witness ==
    /\ MessageGasDone
    /\ last.msg0 = Message(ID_ADDR, 0, 0, 0)
    /\ Len(last.calls) = 2
    /\ last.calls[1].res = Ok(201000)
    /\ last.calls[2] = SubCall("estimate_gas_premium", Len(chain),
                               Err(ERR_PREMIUM_CONVERT))
    /\ last.res = Err(ERR_PREMIUM_CONVERT)

\* C17: a step of any of the four estimators leaves the chain store (the
\* heaviest tipset and the history behind it) and the message pool as they
\* were.
C17_EstimatorsReadOnly ==
    [][(last' # last /\ last'.op # "none") =>
          (chain' = chain /\ mpool' = mpool)]_vars

C17_Witness ==
    /\ MessageGasOk
    /\ Len(last.calls) = 3
    /\ last.prior = <<"m1", "m2">>
    /\ mpool.pending = (KEY_ADDR :> <<"m1", "m2">>)
    /\ mpool.cur_tipset = 2 /\ Len(chain) = 3

\* the sum of the block header counts of chain[lo..hi]
RECURSIVE HeadersBetween(_, _, _)
HeadersBetween(c, lo, hi) ==
    IF lo > hi THEN 0
    ELSE Len(c[hi].block_headers) + HeadersBetween(c, lo, hi - 1)

\* how many messages of chain[lo..hi] carry the pair (p, l)
RECURSIVE PairsBetween(_, _, _, _, _)
PairsBetween(c, lo, hi, p, l) ==
    IF lo > hi THEN 0
    ELSE Cardinality({k \in 1..Len(c[hi].msgs) :
                        c[hi].msgs[k] = GasMsg(p, l)})
         + PairsBetween(c, lo, hi - 1, p, l)

PairsCollected(prices, p, l) ==
    Cardinality({k \in 1..Len(prices) :
                    prices[k].price = p /\ prices[k].limit = l})

\* C21: the history walk loads at most 2 * max(nblocksincl, 1) parent
\* tipsets and never the parents of the epoch-0 tipset, visits nothing when
\* the heaviest tipset is at epoch 0, and ends with blocks equal to the number
\* of block headers of the parents visited and with exactly the (premium,
\* gas limit) pairs of their messages.
C21_WalkBounded ==
    PremiumDone =>
        LET head == Len(chain)
            lo == head - last.loads
        IN  /\ last.loads <= 2 * ClampedNBlocks
            /\ last.loads <= head - 1
            /\ head = 1 =>
                  (last.loads = 0 /\ last.blocks = 0 /\ last.prices = <<>>)
            /\ HistoryLoaded =>
                  /\ last.loads = 2 * ClampedNBlocks \/ lo = 1
                  /\ last.blocks = HeadersBetween(chain, lo, head - 1)
                  /\ \A p \in 0..3, l \in 0..5 :
                        PairsCollected(last.prices, p, l)
                            = PairsBetween(chain, lo, head - 1, p, l)
                  /\ \A k \in 1..Len(last.prices) :
                        /\ last.prices[k].price \in 0..3
                        /\ last.prices[k].limit \in 0..5

C21_Witness ==
    /\ PremiumDone /\ last.res.ok
    /\ Len(chain) = 4 /\ last.nblocksincl = 1
    /\ last.loads = 2 /\ last.blocks = 3
    /\ Len(chain[2].block_headers) = 2
    /\ last.prices = <<[price |-> 3, limit |-> 5], [price |-> 0, limit |-> 0]>>

\* C22: when the speculative execution answers with a receipt of exit code
\* 0, estimate_gas_limit returns gas_used + 200000, which is at least 200000
\* and so never the -1 of a failed execution.
C22_GasUsedPlusMargin ==
    (GasLimitCall /\ last.out.ok /\ last.out.val.msg_rct # <<>>
        /\ last.out.val.msg_rct[1].exit_code = 0) =>
        /\ last.gl = Ok(last.out.val.msg_rct[1].gas_used + 200000)
        /\ last.gl.val >= 200000 /\ last.gl.val # -1
        /\ last.op = "estimate_gas_limit" =>
              (last.pc = "done" /\ last.res = last.gl)

C22_Witness ==
    /\ last.op = "estimate_gas_limit" /\ last.pc = "done"
    /\ last.out = Ok([msg_rct |-> <<Receipt(0, 1000)>>])
    /\ last.res = Ok(201000)

\* the call of call_with_gas has been made
Executing == GasLimitCall /\ last.ts # 0

\* C23: the message handed to call_with_gas has gas limit BLOCK_GAS_LIMIT,
\* fee cap MINIMUM_BASE_FEE + 1 and premium 1 whatever the input carried, its
\* other fields are the input's, and the prior messages are the pool's
\* pending messages of the sender's key address in pool order, none when the
\* pool has none for it.
C23_SpeculativeMessage ==
    Executing =>
        /\ last.spec_msg.gas_limit = BLOCK_GAS_LIMIT
        /\ last.spec_msg.gas_fee_cap = MINIMUM_BASE_FEE + 1
        /\ last.spec_msg.gas_premium = 1
        /\ last.spec_msg.from = last.msg0.from
        /\ last.from_a = KEY_ADDR
        /\ last.prior = IF mpool.pending = <<>> THEN <<>>
                        ELSE mpool.pending[KEY_ADDR]

C23_Witness ==
    /\ last.op = "estimate_gas_limit" /\ last.pc = "call"
    /\ last.msg0 = Message(ID_ADDR, 5, 300, 9)
    /\ last.spec_msg = Message(ID_ADDR, BLOCK_GAS_LIMIT, 101, 1)
    /\ last.prior = <<"m1", "m2">>

\* C24: the tipset estimate_gas_limit executes on is the heaviest tipset it
\* read at its start and resolved the sender with, in every interleaving
\* with head changes of the chain store and of the message pool.
C24_ExecutesOnHeaviest ==
    Executing => last.ts = last.curr_ts

\* C25: within one estimate_message_gas call every sub-estimate works on the
\* same heaviest tipset, even when the heaviest tipset changes between them.
C25_OneSnapshot ==
    MessageGasCall =>
        \A i, j \in 1..Len(last.calls) :
            last.calls[i].head = last.calls[j].head

\* C27: when the gas limit is zero on input and estimate_gas_limit answers
\* -1, estimate_message_gas does not fail on it: the gas limit becomes
\* u64::MAX, the premium and fee cap steps follow, and a successful call
\* returns that gas limit.
C27_SentinelBecomesMax ==
    (MessageGasCall /\ last.msg0.gas_limit = 0 /\ last.gl = Ok(-1)) =>
        /\ last.msg.gas_limit = U64_MAX
        /\ last.calls[1] = SubCall("estimate_gas_limit", last.curr_ts, Ok(-1))
        /\ last.pc = "done" =>
              /\ last.res.ok => last.res.val.gas_limit = U64_MAX
              /\ ~last.res.ok => Len(last.calls) > 1
              /\ last.msg0.gas_premium = 0 =>
                    last.calls[2].fn = "estimate_gas_premium"
              /\ (last.msg0.gas_fee_cap = 0 /\ last.res.ok) =>
                    last.calls[Len(last.calls)].fn = "estimate_fee_cap"

C27_Witness ==
    /\ MessageGasOk
    /\ last.msg0 = Message(ID_ADDR, 0, 0, 0)
    /\ last.out = Ok([msg_rct |-> <<Receipt(16, 1000)>>])
    /\ Len(last.calls) = 3
    /\ last.res.val.gas_limit = U64_MAX

\* C28: estimate_gas_limit returns Ok(-1) when the execution ends without a
\* receipt, fails only when the address resolution or the execution call
\* fails, and so returns -1, a value of at least 200000, or an error.
C28_GasLimitOutcomes ==
    (last.op = "estimate_gas_limit" /\ last.pc = "done") =>
        /\ (last.out.ok /\ last.out.val.msg_rct = <<>>) => last.res = Ok(-1)
        /\ IF last.res.ok
           THEN last.out.ok /\ (last.res.val = -1 \/ last.res.val >= 200000)
           ELSE \/ last.res = Err(ERR_RESOLVE) /\ last.from_a = ""
                \/ /\ last.res = Err(ERR_CALL_WITH_GAS)
                   /\ last.from_a # "" /\ last.out = Err(ERR_CALL_WITH_GAS)

C28_Witness ==
    /\ last.op = "estimate_gas_limit" /\ last.pc = "done"
    /\ last.out = Ok([msg_rct |-> <<>>])
    /\ last.res = Ok(-1)

(***************************************************************************)
(* Properties of the WebSocket handler.                                    *)
(***************************************************************************)
Carries(k, data) ==
    frames[k].message.kind \in {"Text", "Binary"}
        /\ frames[k].message.data = data

\* the receive loop is done with frame k
Handled(k) ==
    k < Len(frames) \/ conn.pc \in {"recv", "ended", "returned", "panicked"}

Dispatched(k) == k <= Len(frames) /\ frames[k].task # "none"

Replied(k) == Dispatched(k) /\ frames[k].task = "done"

\* those writing to the socket
Senders ==
    {k \in 1..Len(frames) : frames[k].task \in {"response_send", "error_send"}}
        \cup (IF conn.pc \in {"deserialize_send", "reject_send"} THEN {-1}
              ELSE {})

\* C26 as stated: on the v0 endpoint a request of a v1 method spawns no
\* task, gets one error frame with code 3 and is the last frame the
\* connection handles; on the v1 endpoint it is dispatched.
C26_V1RejectedWithErrorFrame ==
    \A k \in 1..Len(frames) :
        Carries(k, V1_REQUEST) =>
            IF conn.reject_v1_methods
            THEN /\ frames[k].task = "none"
                 /\ k = Len(frames)
                 /\ conn.pc \in {"reject_lock", "reject_send", "returned"}
                 /\ conn.pc = "returned" => frames[k].sent = <<ErrorFrame(3)>>
                 /\ conn.pc # "returned" => frames[k].sent = <<>>
            ELSE frames[k].task # "none"

\* C26: on the v0 endpoint a request of a v1 method spawns no task and is
\* the last frame the connection handles: the handler writes one error
\* frame with code 3 and returns, or panics without a frame when that write
\* fails; on the v1 endpoint the request is dispatched.
C26_V1Rejected ==
    \A k \in 1..Len(frames) :
        Carries(k, V1_REQUEST) =>
            IF conn.reject_v1_methods
            THEN /\ frames[k].task = "none"
                 /\ k = Len(frames)
                 /\ conn.pc \in {"reject_lock", "reject_send", "returned",
                                 "panicked"}
                 /\ conn.pc = "returned" => frames[k].sent = <<ErrorFrame(3)>>
                 /\ conn.pc # "returned" => frames[k].sent = <<>>
                 /\ conn.pc = "panicked" => ~ws_sender.open
            ELSE frames[k].task # "none"

C26_Witness ==
    /\ conn.reject_v1_methods /\ conn.pc = "returned"
    /\ Len(frames) = 2
    /\ frames[1].message = WsMessage("Text", V0_REQUEST)
    /\ frames[1].task # "none"
    /\ frames[2].message = WsMessage("Text", V1_REQUEST)
    /\ frames[2].task = "none" /\ frames[2].sent = <<ErrorFrame(3)>>

\* C29: a frame that is dispatched gets at most one text frame, and exactly
\* one once its task is through: the response when the permission check and
\* the call both succeeded, else an error frame with code 3; no two frames
\* are written at the same time; and every dispatched frame gets its frame
\* eventually unless the socket stops taking writes.
C29_OneReplyPerRequest ==
    /\ [](\A k \in 1..Len(frames) :
            Dispatched(k) =>
                /\ Len(frames[k].sent) <= 1
                /\ frames[k].task = "done" =>
                      frames[k].sent =
                          IF frames[k].allowed = "ok" /\ frames[k].called = "ok"
                          THEN <<ResponseFrame>>
                          ELSE <<ErrorFrame(3)>>
                /\ frames[k].task # "done" => frames[k].sent = <<>>
                /\ frames[k].task = "panicked" => ~ws_sender.open)
    /\ [](Cardinality(Senders) <= 1)
    /\ \A k \in 1..MaxFrames :
          Dispatched(k) ~> (Replied(k) \/ ~ws_sender.open)

C29_Witness ==
    /\ Len(frames) = 2 /\ ws_sender.open
    /\ frames[1].task = "done" /\ frames[1].sent = <<ErrorFrame(3)>>
    /\ frames[1].allowed = "ok" /\ frames[1].called = "error"
    /\ frames[2].task = "done" /\ frames[2].sent = <<ResponseFrame>>

\* C30 as stated: a non-empty text or binary frame that is not a request
\* gets exactly one error frame with code 1 and no task, and the loop goes
\* on; an empty frame or a frame of another kind gets nothing.
C30_DeserializeErrorFrame ==
    \A k \in 1..Len(frames) :
        /\ Carries(k, INVALID_JSON) =>
              /\ frames[k].task = "none"
              /\ Handled(k) => frames[k].sent = <<ErrorFrame(1)>>
              /\ (Handled(k) /\ k = Len(frames)) =>
                    conn.pc \in {"recv", "ended"}
        /\ (Carries(k, "") \/ frames[k].message.kind = "Ping") =>
              (frames[k].task = "none" /\ frames[k].sent = <<>>)

\* C30: a non-empty text or binary frame that is not a request gets no task
\* and, when the write succeeds, exactly one error frame with code 1 (none
\* when it fails), and the loop goes on either way; an empty frame or a
\* frame of another kind gets nothing.
C30_DeserializeError ==
    \A k \in 1..Len(frames) :
        /\ Carries(k, INVALID_JSON) =>
              /\ frames[k].task = "none"
              /\ Handled(k) =>
                    \/ frames[k].sent = <<ErrorFrame(1)>>
                    \/ frames[k].sent = <<>> /\ ~ws_sender.open
              /\ ~Handled(k) => frames[k].sent = <<>>
              /\ (Handled(k) /\ k = Len(frames)) =>
                    conn.pc \in {"recv", "ended"}
        /\ (Carries(k, "") \/ frames[k].message.kind = "Ping") =>
              (frames[k].task = "none" /\ frames[k].sent = <<>>)

C30_Witness ==
    /\ Len(frames) = 2 /\ conn.pc = "recv"
    /\ frames[1].message = WsMessage("Binary", INVALID_JSON)
    /\ frames[1].task = "none" /\ frames[1].sent = <<ErrorFrame(1)>>
    /\ frames[2].message = WsMessage("Text", "")
    /\ frames[2].sent = <<>>

====
